---- MODULE Spec2Model ----
(***************************************************************************)
(* Model of all_in_one_isp_monitor.py: the report generator                *)
(* (ping_ip, get_isp, generate_report), the report folder it writes to,    *)
(* and the dashboard script that lists, loads and aggregates the stored    *)
(* workbooks.                                                              *)
(*                                                                         *)
(* Texts that the code parses or compares (latency cells, the strftime     *)
(* fields of file names and of "Report Generated At") are sequences of     *)
(* one-character strings, so that formatting, parsing and lexical sorting  *)
(* are computed and not assumed.  The clock is the seconds field of        *)
(* datetime.now(); it only moves forward (Tick).  One script run executes  *)
(* at a time.  The "Timestamp" column of the result rows is written but    *)
(* never read by the script and is left out of the rows.                   *)
(***************************************************************************)
EXTENDS Integers, Sequences, FiniteSets, TLC

(* ------------------------------ bounds -------------------------------- *)
\* longest endpoint file (raw lines) of a single script run
MaxLines == 2
\* number of report generations in the repeated-run specification
MaxRuns == 3
\* first and last value of the clock's seconds field
FirstSecond == 8
MaxClock == 10

(* ----------------------------- constants ------------------------------ *)
LATENCY_WARNING_THRESHOLD == 100

PingSheet == "Ping Report"
SummarySheet == "Summary"
PingColumns == {"IP Address", "ISP Name", "Status", "Latency (ms)", "Timestamp"}
TotalMetric == "Total IPs Checked"
PassMetric == "Total PASS"
FailMetric == "Total FAIL"
HighMetric == "High Latency (>100ms)"
CountMetrics == {TotalMetric, PassMetric, FailMetric, HighMetric}

(* ------------------------------- texts -------------------------------- *)
Digits == <<"0", "1", "2", "3", "4", "5", "6", "7", "8", "9">>
DigitChars == {Digits[i] : i \in 1..10}
DigitValue(c) == (CHOOSE i \in 1..10 : Digits[i] = c) - 1
\* code point order of the characters that occur in the compared texts
CharRank(c) == IF c = "." THEN 0 ELSE 1 + DigitValue(c)

\* the cell value "N/A", and the NaN that pandas reads such a cell back as
NA == <<"N", "/", "A">>
NaN == <<"nan">>

RECURSIVE DigitsToNat(_)
DigitsToNat(s) ==
    IF s = <<>> THEN 0
    ELSE 10 * DigitsToNat(SubSeq(s, 1, Len(s) - 1)) + DigitValue(s[Len(s)])

RECURSIVE Pow10(_)
Pow10(n) == IF n = 0 THEN 1 ELSE 10 * Pow10(n - 1)

\* Python's float(x) on a text of the regex class [\d\.]+, on "N/A" and on a
\* NaN cell: ok = FALSE is ValueError; otherwise the value is num / den
\* (nan = TRUE for float('nan'), which compares False with everything).
float(x) ==
    IF x = NaN THEN [ok |-> TRUE, nan |-> TRUE, num |-> 0, den |-> 1]
    ELSE
      LET dots == {i \in 1..Len(x) : x[i] = "."}
          wellFormed == /\ \A i \in 1..Len(x) : x[i] \in DigitChars \cup {"."}
                        /\ Cardinality(dots) <= 1
                        /\ Cardinality(dots) < Len(x)
      IN IF ~wellFormed THEN [ok |-> FALSE, nan |-> FALSE, num |-> 0, den |-> 1]
         ELSE LET d == IF dots = {} THEN Len(x) + 1 ELSE CHOOSE i \in dots : TRUE
                  int == SubSeq(x, 1, d - 1)
                  frac == SubSeq(x, d + 1, Len(x))
              IN [ok |-> TRUE, nan |-> FALSE,
                  num |-> DigitsToNat(int \o frac), den |-> Pow10(Len(frac))]

\* float(x) > LATENCY_WARNING_THRESHOLD, for a float(x) that did not raise
ExceedsThresholdGE(f) == ~f.nan /\ f.num >= LATENCY_WARNING_THRESHOLD * f.den
ExceedsThreshold(f) == ~f.nan /\ f.num > LATENCY_WARNING_THRESHOLD * f.den

\* lexical (code point) order of two texts, as sorted() compares str
RECURSIVE LexLess(_, _)
LexLess(a, b) ==
    IF a = <<>> THEN b # <<>>
    ELSE IF b = <<>> THEN FALSE
    ELSE IF a[1] # b[1] THEN CharRank(a[1]) < CharRank(b[1])
    ELSE LexLess(Tail(a), Tail(b))

\* datetime.now().strftime(...): the seconds field, two digits, zero padded
strftimeUnpadded(t) ==
    IF t < 10 THEN <<Digits[t + 1]>>
    ELSE <<Digits[(t \div 10) + 1], Digits[(t % 10) + 1]>>
strftime(t) == <<Digits[(t \div 10) + 1], Digits[(t % 10) + 1]>>

\* pd.to_datetime on a "Report Generated At" cell
to_datetime(s) == DigitsToNat(s)

(* ------------------------- the environment ---------------------------- *)
\* A line of ping's output is the text captured by time[=<]([\d\.]+) on it,
\* or NoTime when the regex does not match the line.
NoTime == <<>>
\* outcomes of subprocess.check_output: an exception (unreachable host and
\* non-zero exit, ping missing, undecodable output), or the output lines
PingRaises == [raises |-> TRUE, lines |-> <<>>]
PingOutput(ls) == [raises |-> FALSE, lines |-> ls]
PingOutcomes ==
    { PingRaises,
      PingOutput(<<NoTime, NoTime>>),
      PingOutput(<<NoTime, <<"4", "5">>, <<"1", "5", "0">>>>),
      PingOutput(<<NoTime, <<"1", "0", "0">>>>),
      PingOutput(<<NoTime, <<"1", "0", "0", ".", "5">>>>),
      PingOutput(<<NoTime, <<".">>>>) }
\* the outcomes drawn in the repeated-run specification
FewPingOutcomes ==
    { PingRaises, PingOutput(<<NoTime, <<"1", "0", "0", ".", "5">>>>) }

\* outcomes of requests.get(...).json(): an exception, or the JSON object
\* as the set of its keys with the value of "isp"
LookupRaises == [raises |-> TRUE, keys |-> {}, isp |-> ""]
LookupOutcomes ==
    { LookupRaises,
      [raises |-> FALSE, keys |-> {"status"}, isp |-> ""],
      [raises |-> FALSE, keys |-> {"status", "isp"}, isp |-> "ISP-A"] }
FewLookupOutcomes ==
    { [raises |-> FALSE, keys |-> {"status", "isp"}, isp |-> "ISP-A"] }

\* contents of ip_list.txt: raw lines, some of them blank
Addresses == {"203.0.113.1", "203.0.113.2"}
RECURSIVE SeqsUpTo(_, _)
SeqsUpTo(S, n) ==
    IF n = 0 THEN {<<>>}
    ELSE LET shorter == SeqsUpTo(S, n - 1)
         IN shorter \cup {Append(s, x) : s \in shorter, x \in S}
EndpointFiles == SeqsUpTo(Addresses \cup {""}, MaxLines)
FewEndpointFiles == {<<"203.0.113.1">>, <<"203.0.113.1", "", "203.0.113.2">>}

(* --------------------------- generate_report -------------------------- *)
get_isp(response) ==
    IF response.raises THEN "Lookup Failed"
    ELSE IF "isp" \in response.keys THEN response.isp
    ELSE "Unknown"

\* the first line the regex matches gives the latency
FirstMatch(lines) ==
    LET hits == {i \in 1..Len(lines) : lines[i] # NoTime}
    IN IF hits = {} THEN NA
       ELSE lines[CHOOSE i \in hits : \A j \in hits : i <= j]

ping_ipKeepsTime(outcome) ==
    IF outcome.raises THEN [status |-> "FAIL", latency |-> <<"0">>]
    ELSE [status |-> "PASS", latency |-> FirstMatch(outcome.lines)]
ping_ip(outcome) ==
    IF outcome.raises THEN [status |-> "FAIL", latency |-> NA]
    ELSE [status |-> "PASS", latency |-> FirstMatch(outcome.lines)]

\* [ip.strip() for ip in file if ip.strip()]
read_ip_list(lines) == SelectSeq(lines, LAMBDA l : l # "")

\* lines 74-80: the status tally of one result
count_statusPassOnly(status, c) ==
    IF status = "PASS" THEN [c EXCEPT !.pass_count = @ + 1] ELSE c
count_status(status, c) ==
    IF status = "PASS" THEN [c EXCEPT !.pass_count = @ + 1]
    ELSE [c EXCEPT !.fail_count = @ + 1, !.any_failure = TRUE]

\* lines 82-88: 1 when the result counts as high latency
high_latencyGE(latency) ==
    IF latency # NA /\ float(latency).ok /\ ExceedsThresholdGE(float(latency))
    THEN 1 ELSE 0
high_latency(latency) ==
    IF latency # NA /\ float(latency).ok /\ ExceedsThreshold(float(latency))
    THEN 1 ELSE 0

NoCounts ==
    [pass_count |-> 0, fail_count |-> 0, high_latency_count |-> 0,
     any_failure |-> FALSE]

\* lines 94-99: the count rows of the Summary sheet
summary_rows(ips, c) ==
    (TotalMetric :> Len(ips)) @@ (PassMetric :> c.pass_count) @@
    (FailMetric :> c.fail_count) @@ (HighMetric :> c.high_latency_count)

(* ------------------------------ the state ----------------------------- *)
VARIABLES
    clock,        \* seconds field of datetime.now()
    folder,       \* ping_reports: file name -> workbook file
    pc,           \* position of the running script
    ip_list,      \* generate_report: the endpoints read
    ws,           \* generate_report: rows of the "Ping Report" sheet
    counts,       \* generate_report: pass/fail/high counters, any_failure
    generated_at, \* generate_report: "Report Generated At" cell
    filename,     \* generate_report: name the workbook is saved under
    result,       \* what generate_report gave its caller
    dash,         \* what the dashboard part of the script computed
    runs          \* number of generate_report calls so far

vars == <<clock, folder, pc, ip_list, ws, counts, generated_at, filename,
          result, dash, runs>>
gen == <<ip_list, ws, counts, generated_at, filename>>

NoText == <<>>
NotCalled == [how |-> "not called", filename |-> NoText, any_failure |-> FALSE]
NoDash ==
    [outcome |-> "not run", files |-> <<>>, metrics |-> <<>>,
     isp_summary |-> <<>>, history_frames |-> <<>>]

\* a workbook file of the folder; order is the position of its save among
\* all saves (creation order), kept for stating the claims
Workbook(rows, metrics, stamp, n) ==
    [complete |-> TRUE, sheets |-> {PingSheet, SummarySheet}, rows |-> rows,
     metrics |-> metrics, generated_at |-> stamp, order |-> n]
\* what ZipFile(filename, "w") leaves until the archive is closed
TruncatedFile(n) ==
    [complete |-> FALSE, sheets |-> {}, rows |-> <<>>, metrics |-> <<>>,
     generated_at |-> NoText, order |-> n]

(* ------------------------- the dashboard script ----------------------- *)
\* line 122: sorted(..., reverse=True) of the folder's .xlsx names
RECURSIVE SortedDescending(_)
SortedDescending(names) ==
    IF names = {} THEN <<>>
    ELSE LET top == CHOOSE n \in names : \A m \in names : ~LexLess(n, m)
         IN <<top>> \o SortedDescending(names \ {top})

list_reports(dir) == SortedDescending(DOMAIN dir)

\* pd.read_excel(file, sheet_name=...) raises on a file that is no complete
\* archive and on a workbook without the sheet
read_raises(file, sheet) == ~file.complete \/ sheet \notin file.sheets

\* pd.read_excel of "Ping Report": a cell holding "N/A" is read as NaN
read_ping_report(file) ==
    [i \in 1..Len(file.rows) |->
        [file.rows[i] EXCEPT !.latency = IF @ = NA THEN NaN ELSE @]]

\* lines 135-137
get_summary_value(metrics, metric_name) ==
    IF metric_name \in DOMAIN metrics THEN metrics[metric_name] ELSE 0

\* the lambda of lines 166 and 196 on one "Latency (ms)" cell
flag_raises(x) == x # NA /\ ~float(x).ok
flag(x) == IF x # NA /\ ExceedsThreshold(float(x)) THEN 1 ELSE 0

Cell(r, column) ==
    CASE column = "IP Address" -> r.ip
      [] column = "ISP Name" -> r.isp
      [] column = "Status" -> r.status
      [] column = "Latency (ms)" -> r.latency
      [] column = "High Latency" -> flag(r.latency)

RECURSIVE SumOver(_, _)
SumOver(S, f) ==
    IF S = {} THEN 0
    ELSE LET x == CHOOSE y \in S : TRUE IN f[x] + SumOver(S \ {x}, f)

\* lines 167-171: groupby("ISP Name").agg({...}) raises when a key of the
\* dict is no column of the frame
AggKeys == {"PASS", "FAIL", "High Latency"}
agg_raises(columns) == ~(AggKeys \subseteq columns)
Raised == [raised |-> TRUE, groups |-> <<>>]
isp_summary(df, columns) ==
    IF agg_raises(columns) THEN Raised
    ELSE LET of(p) == {i \in DOMAIN df : df[i].isp = p}
             isps == {df[i].isp : i \in DOMAIN df}
         IN [raised |-> FALSE,
             groups |->
               [p \in isps |->
                 [PASS |-> Cardinality({i \in of(p) : Cell(df[i], "PASS") = "PASS"}),
                  FAIL |-> Cardinality({i \in of(p) : Cell(df[i], "FAIL") = "FAIL"}),
                  High |-> SumOver(of(p), [i \in of(p) |-> Cell(df[i], "High Latency")])]]]

\* a numeric cell of a frame: a number, or NaN
Num(k) == [nan |-> FALSE, n |-> k]
NumNaN == [nan |-> TRUE, n |-> 0]

\* lines 190-199 for one file: raised = TRUE when the try block raises
history_frame(file) ==
    IF \/ read_raises(file, PingSheet)
       \/ read_raises(file, SummarySheet)
       \/ file.generated_at = NoText
       \/ \E i \in DOMAIN file.rows : flag_raises(read_ping_report(file)[i].latency)
    THEN [raised |-> TRUE, Timestamp |-> 0, groups |-> <<>>]
    ELSE LET df == read_ping_report(file)
             isps == {df[i].isp : i \in DOMAIN df}
             statuses == {df[i].status : i \in DOMAIN df}
             \* groupby(["ISP Name", "Status"]).size().unstack(fill_value=0)
             size(p, st) == Cardinality({i \in DOMAIN df : df[i].isp = p /\ df[i].status = st})
             \* line 195: the Series of flags is indexed by row position, the
             \* frame by ISP name; the assignment aligns on the index and no
             \* label of the frame is a label of the Series
             aligned(p) == NumNaN
         IN [raised |-> FALSE,
             Timestamp |-> to_datetime(file.generated_at),
             groups |->
               [p \in isps |->
                 [c \in statuses \cup {"High Latency"} |->
                   IF c = "High Latency" THEN aligned(p) ELSE Num(size(p, c))]]]

\* lines 187-201: the frames of the files that did not raise, in the order
\* of files[::-1]
RECURSIVE history_frames(_, _)
history_frames(dir, files) ==
    IF files = <<>> THEN <<>>
    ELSE LET f == history_frame(dir[files[Len(files)]])
             rest == history_frames(dir, SubSeq(files, 1, Len(files) - 1))
         IN IF f.raised THEN rest ELSE <<[Timestamp |-> f.Timestamp, groups |-> f.groups]>> \o rest

\* lines 122-213 on the folder as it is
dashboard(dir, selected_isp) ==
    LET files == list_reports(dir)
        none == [NoDash EXCEPT !.files = files]
    IN IF files = <<>> THEN [none EXCEPT !.outcome = "no reports"]
       ELSE LET latest == dir[files[1]] IN
         IF read_raises(latest, PingSheet) \/ read_raises(latest, SummarySheet)
         THEN [none EXCEPT !.outcome = "read failed"]
         ELSE LET latest_df == read_ping_report(latest)
                  metrics == [m \in CountMetrics |-> get_summary_value(latest.metrics, m)]
                  shown == [none EXCEPT !.metrics = metrics]
                  df_live == IF selected_isp = "All" THEN latest_df
                             ELSE SelectSeq(latest_df, LAMBDA r : r.isp = selected_isp)
                  summary == isp_summary(df_live, PingColumns \cup {"High Latency"})
              IN IF \E i \in DOMAIN df_live : flag_raises(df_live[i].latency)
                 THEN [shown EXCEPT !.outcome = "ValueError"]
                 ELSE IF summary.raised
                 THEN [shown EXCEPT !.outcome = "KeyError"]
                 ELSE [shown EXCEPT !.outcome = "rendered",
                                    !.isp_summary = summary.groups,
                                    !.history_frames = history_frames(dir, files)]

(* ------------------------------ actions ------------------------------- *)
\* the locals of generate_report are gone once it is left
Forgotten ==
    /\ ip_list' = <<>>
    /\ ws' = <<>>
    /\ counts' = NoCounts
    /\ generated_at' = NoText
    /\ filename' = NoText

\* datetime.now() moves on
Tick ==
    /\ clock < MaxClock
    /\ clock' = clock + 1
    /\ UNCHANGED <<folder, pc, gen, result, dash, runs>>

\* line 115 pressed, lines 51-65: generate_report reads ip_list.txt
Start(files, limit) ==
    /\ pc = "idle"
    /\ runs < limit
    /\ \E lines \in files :
         /\ ip_list' = read_ip_list(lines)
         /\ ws' = <<>>
         /\ counts' = NoCounts
         /\ generated_at' = NoText
         /\ filename' = NoText
    /\ pc' = "loop"
    /\ runs' = runs + 1
    /\ result' = NotCalled
    /\ dash' = NoDash
    /\ UNCHANGED <<clock, folder>>

\* lines 67-88: one iteration of the endpoint loop
ProbeStep(pings, lookups) ==
    /\ pc = "loop"
    /\ Len(ws) < Len(ip_list)
    /\ \E outcome \in pings, response \in lookups :
         LET ip == ip_list[Len(ws) + 1]
             probe == ping_ip(outcome)
             isp == get_isp(response)
             tallied == count_status(probe.status, counts)
         IN /\ ws' = Append(ws, [ip |-> ip, isp |-> isp,
                                 status |-> probe.status, latency |-> probe.latency])
            /\ counts' = [tallied EXCEPT !.high_latency_count =
                                            @ + high_latency(probe.latency)]
    /\ UNCHANGED <<clock, folder, pc, ip_list, generated_at, filename, result,
                   dash, runs>>

\* lines 90-100: the Summary sheet, stamped with the clock
Summarise ==
    /\ pc = "loop"
    /\ Len(ws) = Len(ip_list)
    /\ generated_at' = strftime(clock)
    /\ pc' = "summarised"
    /\ UNCHANGED <<clock, folder, ip_list, ws, counts, filename, result, dash, runs>>

\* line 102: the file name, from a later reading of the clock
NameFile ==
    /\ pc = "summarised"
    /\ filename' = strftime(clock)
    /\ pc' = "named"
    /\ UNCHANGED <<clock, folder, ip_list, ws, counts, generated_at, result, dash, runs>>

\* line 103, wb.save opens the archive: the file exists under its final
\* name, truncated, whatever was stored under that name before
SaveOpen ==
    /\ pc = "named"
    /\ folder' = (filename :> TruncatedFile(runs)) @@ folder
    /\ pc' = "writing"
    /\ UNCHANGED <<clock, gen, result, dash, runs>>

\* line 103, wb.save writes the sheets and closes the archive; lines 105,
\* 116: generate_report returns to the script
SaveClose ==
    /\ pc = "writing"
    /\ folder' = [folder EXCEPT ![filename] =
                    Workbook(ws, summary_rows(ip_list, counts), generated_at, runs)]
    /\ result' = [how |-> "returned", filename |-> filename,
                  any_failure |-> counts.any_failure]
    /\ pc' = "returned"
    /\ Forgotten
    /\ UNCHANGED <<clock, dash, runs>>

\* line 103 raises (permission denied on opening, disk full while writing):
\* the exception leaves generate_report and ends the script run
SaveRaises ==
    /\ pc \in {"named", "writing"}
    /\ result' = [how |-> "raised", filename |-> NoText, any_failure |-> FALSE]
    /\ pc' = "idle"
    /\ Forgotten
    /\ UNCHANGED <<clock, folder, dash, runs>>

\* the process is terminated while generate_report runs
Terminate ==
    /\ pc \in {"loop", "summarised", "named", "writing"}
    /\ result' = [how |-> "terminated", filename |-> NoText, any_failure |-> FALSE]
    /\ pc' = "idle"
    /\ Forgotten
    /\ UNCHANGED <<clock, folder, dash, runs>>

\* lines 117-213: the rest of the script, after generate_report returned or
\* in a script run without the button pressed
Dashboard ==
    /\ pc \in {"idle", "returned"}
    /\ \E selected_isp \in {"All"} \cup
            {r.isp : r \in UNION {{f.rows[i] : i \in DOMAIN f.rows} :
                                     f \in {folder[n] : n \in DOMAIN folder}}} :
         /\ \/ selected_isp = "All"
            \/ /\ DOMAIN folder # {}
               /\ \E i \in DOMAIN folder[list_reports(folder)[1]].rows :
                    folder[list_reports(folder)[1]].rows[i].isp = selected_isp
         /\ dash' = dashboard(folder, selected_isp)
    /\ result' = IF pc = "returned" THEN result ELSE NotCalled
    /\ pc' = "idle"
    /\ UNCHANGED <<clock, folder, gen, runs>>

(* --------------------------- specifications --------------------------- *)
\* reports found in the folder at start, left by an earlier version of the
\* script or edited by hand, named like the script's own
EarlierName == strftime(FirstSecond - 1)
EarlierRow ==
    [ip |-> "203.0.113.1", isp |-> "ISP-A", status |-> "FAIL", latency |-> NA]
EarlierReports ==
    { Workbook(<<EarlierRow>>, (TotalMetric :> 1), EarlierName, 0),
      Workbook(<<EarlierRow>>, summary_rows(<<"a", "b">>, NoCounts), EarlierName, 0),
      [Workbook(<<EarlierRow>>, <<>>, NoText, 0) EXCEPT !.sheets = {PingSheet}] }

InitGen ==
    /\ pc = "idle"
    /\ ip_list = <<>>
    /\ ws = <<>>
    /\ counts = NoCounts
    /\ generated_at = NoText
    /\ filename = NoText
    /\ result = NotCalled
    /\ dash = NoDash
    /\ runs = 0

\* repeated script runs over a folder that may hold an earlier report
Init ==
    /\ InitGen
    /\ clock = FirstSecond
    /\ folder \in {<<>>} \cup {(EarlierName :> f) : f \in EarlierReports}

Next ==
    \/ Tick
    \/ Start(FewEndpointFiles, MaxRuns)
    \/ ProbeStep(FewPingOutcomes, FewLookupOutcomes)
    \/ Summarise
    \/ NameFile
    \/ SaveOpen
    \/ SaveClose
    \/ SaveRaises
    \/ Terminate
    \/ Dashboard

Spec == Init /\ [][Next]_vars

\* one script run with the button pressed, over an empty folder, with every
\* probe and lookup outcome
InitRun ==
    /\ InitGen
    /\ clock = FirstSecond
    /\ folder = <<>>

NextRun ==
    \/ Start(EndpointFiles, 1)
    \/ ProbeStep(PingOutcomes, LookupOutcomes)
    \/ Summarise
    \/ NameFile
    \/ SaveOpen
    \/ SaveClose
    \/ Dashboard

SpecRun == InitRun /\ [][NextRun]_vars

(* ------------------------------- claims ------------------------------- *)
Files == {folder[n] : n \in DOMAIN folder}
\* the workbooks generate_report has written completely
SavedRuns == {f \in Files : f.complete /\ f.order > 0}
RowsOf(f) == {f.rows[i] : i \in DOMAIN f.rows}

\* C1: the workbook a cycle saves has one result row per configured
\* endpoint, in the order of the list, and its summary satisfies
\* Total PASS + Total FAIL = Total IPs Checked = number of rows = number of
\* endpoints, whatever the probes and lookups did.
C1_SummaryCountsEveryEndpoint ==
    [][(pc = "writing" /\ pc' = "returned") =>
         LET f == folder'[filename]
         IN /\ f.complete
            /\ Len(f.rows) = Len(ip_list)
            /\ \A i \in DOMAIN f.rows : f.rows[i].ip = ip_list[i]
            /\ f.metrics[TotalMetric] = Len(ip_list)
            /\ f.metrics[PassMetric] + f.metrics[FailMetric] = f.metrics[TotalMetric]
            /\ f.metrics[PassMetric] =
                 Cardinality({i \in DOMAIN f.rows : f.rows[i].status = "PASS"})
            /\ f.metrics[FailMetric] =
                 Cardinality({i \in DOMAIN f.rows : f.rows[i].status = "FAIL"})]_vars

\* a saved run of two endpoints, one probe failed, one lookup failed
C1_Witness ==
    \E f \in SavedRuns :
        /\ Len(f.rows) = 2
        /\ \E r \in RowsOf(f) : r.status = "FAIL"
        /\ \E r \in RowsOf(f) : r.isp = "Lookup Failed"
        /\ f.metrics[TotalMetric] = 2

\* C2: a save never overwrites a stored Run: a report that is completely
\* stored stays in the folder as the same report at every later step.
C2_StoredRunNeverOverwritten ==
    [][\A n \in DOMAIN folder :
          folder[n].complete =>
              /\ n \in DOMAIN folder'
              /\ folder'[n].complete
              /\ folder'[n].order = folder[n].order]_vars

\* the value of a latency text, when it has one, is above the threshold
StrictlyAboveThreshold(text) ==
    /\ text # NA
    /\ float(text).ok
    /\ float(text).num > LATENCY_WARNING_THRESHOLD * float(text).den

\* C3: in every saved run, High Latency is the number of PASS rows whose
\* latency is present and strictly above the threshold; a row at the
\* threshold, a row without latency and a FAIL row are not counted, and
\* High Latency <= Total PASS <= Total IPs Checked.
C3_HighLatencyCountsStrictlyAbove ==
    \A f \in SavedRuns :
        /\ f.metrics[HighMetric] =
             Cardinality({i \in DOMAIN f.rows :
                             /\ f.rows[i].status = "PASS"
                             /\ StrictlyAboveThreshold(f.rows[i].latency)})
        /\ f.metrics[HighMetric] <= f.metrics[PassMetric]
        /\ f.metrics[PassMetric] <= f.metrics[TotalMetric]

\* a saved run with a PASS row exactly at the threshold and one above it
C3_Witness ==
    \E f \in SavedRuns :
        /\ \E r \in RowsOf(f) : r.status = "PASS" /\ r.latency = <<"1", "0", "0">>
        /\ \E r \in RowsOf(f) : r.status = "PASS" /\ r.latency = <<"1", "0", "0", ".", "5">>
        /\ f.metrics[HighMetric] = 1

\* C4: when no save is in progress (a save was interrupted or failed, or
\* none is running), every report the listing shows is completely written.
C4_ListedReportsAreComplete ==
    pc = "idle" =>
        \A i \in DOMAIN list_reports(folder) :
            folder[list_reports(folder)[i]].complete

\* C5: whenever the script shows summary values of the latest report, that
\* report holds every summary row and its totals agree with its result
\* table.
C5_ShownSummaryIsValidated ==
    dash.metrics # <<>> =>
        LET f == folder[dash.files[1]]
        IN /\ CountMetrics \subseteq DOMAIN f.metrics
           /\ f.metrics[TotalMetric] = Len(f.rows)
           /\ f.metrics[PassMetric] + f.metrics[FailMetric] = f.metrics[TotalMetric]

\* C6: the listing is in reverse order of creation, and the listing taken
\* right after generate_report returned starts with the report it saved.
C6_LatestSavedIsListedFirst ==
    /\ LET files == list_reports(folder)
       IN \A i, j \in DOMAIN files :
             i < j => folder[files[i]].order > folder[files[j]].order
    /\ (result.how = "returned" /\ dash.outcome # "not run") =>
          /\ dash.files # <<>>
          /\ dash.files[1] = result.filename

\* the listing after a save in second 10, with an earlier report stored
C6_Witness ==
    /\ result.how = "returned"
    /\ dash.outcome # "not run"
    /\ Len(dash.files) >= 2
    /\ result.filename = <<"1", "0">>
    /\ folder[result.filename].order > 1

\* the try block of lines 189-199 does not raise on the file
Readable(f) == ~history_frame(f).raised

\* C7: after the script ran over a folder, the history has one point per
\* readable stored report, in ascending order of "Report Generated At".
C7_HistorySortedOnePerReadableRun ==
    dash.outcome \notin {"not run", "no reports", "read failed"} =>
        /\ Len(dash.history_frames) = Cardinality({n \in DOMAIN folder : Readable(folder[n])})
        /\ \A i, j \in DOMAIN dash.history_frames :
              i < j => dash.history_frames[i].Timestamp <= dash.history_frames[j].Timestamp

\* The loop of lines 187-201 taken alone, on the folder as it is: one frame
\* per readable file, in ascending order of "Report Generated At".  It holds
\* in every reachable state; the script never gets as far as the loop.
HistoryLoopAlone ==
    LET h == history_frames(folder, list_reports(folder))
    IN /\ Len(h) = Cardinality({n \in DOMAIN folder : Readable(folder[n])})
       /\ \A i, j \in DOMAIN h : i < j => h[i].Timestamp <= h[j].Timestamp

\* C8: a FAIL result never carries a latency, in the sheet being built and
\* in every saved run; every status is PASS or FAIL.
C8_FailHasNoLatency ==
    \A r \in RowsOf([rows |-> ws]) \cup UNION {RowsOf(f) : f \in SavedRuns} :
        /\ r.status \in {"PASS", "FAIL"}
        /\ r.status = "FAIL" => r.latency = NA

\* a sheet with a FAIL row and a PASS row whose output had no time
C8_Witness ==
    /\ \E r \in RowsOf([rows |-> ws]) : r.status = "FAIL" /\ r.latency = NA
    /\ \E r \in RowsOf([rows |-> ws]) : r.status = "PASS" /\ r.latency = NA

\* C9: when wb.save raises, the caller still receives the run: the
\* any-failure signal of the results probed.
C9_RunReturnedWhenSaveFails ==
    [][(pc \in {"named", "writing"} /\ result'.how = "raised") =>
          /\ result'.any_failure = counts.any_failure
          /\ result'.filename # NoText]_vars

\* C10: after the script rendered the latest report, the per-provider
\* summary holds, for exactly the providers of that report, its numbers of
\* PASS, FAIL and high-latency results.
C10_PerProviderCounts ==
    dash.outcome \notin {"not run", "no reports", "read failed"} =>
        LET f == folder[dash.files[1]]
            isps == {r.isp : r \in RowsOf(f)}
            of(p) == {i \in DOMAIN f.rows : f.rows[i].isp = p}
        IN /\ DOMAIN dash.isp_summary = isps
           /\ \A p \in isps :
                /\ dash.isp_summary[p].PASS =
                     Cardinality({i \in of(p) : f.rows[i].status = "PASS"})
                /\ dash.isp_summary[p].FAIL =
                     Cardinality({i \in of(p) : f.rows[i].status = "FAIL"})
                /\ dash.isp_summary[p].High =
                     Cardinality({i \in of(p) : StrictlyAboveThreshold(f.rows[i].latency)})

====
